---- MODULE Spec2Model ----
(***************************************************************************)
(* Model of the trainer/pokemon HTTP backend of src/src/main.rs.           *)
(*                                                                         *)
(* The relational store is the six tables the handlers name in their SQL.  *)
(* A table is the sequence of its rows in the order the store returns      *)
(* them.  Every request is one task; a task is suspended exactly where the *)
(* handler awaits a query or an execute, so one action is one awaited      *)
(* statement together with the synchronous code that follows it up to the  *)
(* next await (loop heads, pushes, the final response).                    *)
(***************************************************************************)
EXTENDS Integers, Sequences, FiniteSets, TLC

\* ---------------------------------------------------------------- bounds
NTasks == 2
MaxPathId == 3
NPosts == 2

Tasks == 1..NTasks
\* path ids the clients send (trainer ids and creature ids)
PathIds == 1..MaxPathId

\* --------------------------------------------------------- program constants
StatusOK == 200
StatusInternalServerError == 500

\* ------------------------------------------------------------------ state
VARIABLES
    trainer,          \* table trainer(trainer_id, name, gym_leader)
    trainer_seq,      \* the store's next value for trainer.trainer_id
    pokemon,          \* table pokemon(pokemon_id, name, region_id)
    region,           \* table region(region_id, region_name)
    ability,          \* table ability(ability_id, name, damage, status_effect)
    pokemonabilities, \* table pokemonabilities(pokemon_id, ability_id)
    trainerspokemon,  \* table trainerspokemon(trainer_id, pokemon_id)
    task,             \* the request tasks: handler, its locals, its response
    hist,             \* history: trainer table after each executed write
    started           \* history: number of write requests accepted so far

tables == <<trainer, pokemon, region, ability, pokemonabilities, trainerspokemon>>
readonly == <<pokemon, region, ability, pokemonabilities, trainerspokemon>>
vars == <<trainer, trainer_seq, pokemon, region, ability, pokemonabilities,
          trainerspokemon, task, hist, started>>

\* ------------------------------------------------------------- sequences
RECURSIVE SelectSeq2(_, _, _)
\* rows of s, in order, whose field f equals v (WHERE f = $1)
SelectSeq2(s, f, v) ==
    IF s = <<>> THEN <<>>
    ELSE IF Head(s)[f] = v THEN <<Head(s)>> \o SelectSeq2(Tail(s), f, v)
         ELSE SelectSeq2(Tail(s), f, v)

RECURSIVE RejectSeq(_, _, _)
\* rows of s, in order, whose field f differs from v
RejectSeq(s, f, v) ==
    IF s = <<>> THEN <<>>
    ELSE IF Head(s)[f] = v THEN RejectSeq(Tail(s), f, v)
         ELSE <<Head(s)>> \o RejectSeq(Tail(s), f, v)

Range(s) == {s[n] : n \in 1..Len(s)}

Project(s, f) == [n \in 1..Len(s) |-> [c \in {f} |-> s[n][f]]]

\* ------------------------------------------------- the store's statements
\* "SELECT * FROM trainer"
SelectTrainers == trainer
RECURSIVE Distinct(_)
\* s without the repetitions of a row
Distinct(s) ==
    IF s = <<>> THEN <<>>
    ELSE <<Head(s)>> \o Distinct(SelectSeq(Tail(s), LAMBDA x : x # Head(s)))
\* the statement written with SELECT DISTINCT
SelectOwnedDistinct(trainer_id) ==
    Distinct(Project(SelectSeq2(trainerspokemon, "trainer_id", trainer_id), "pokemon_id"))
\* "SELECT pokemon_id FROM trainerspokemon WHERE trainer_id = $1"
SelectOwned(trainer_id) ==
    Project(SelectSeq2(trainerspokemon, "trainer_id", trainer_id), "pokemon_id")
\* "SELECT * FROM pokemon WHERE pokemon_id = $1"
SelectPokemonById(pokemon_id) == SelectSeq2(pokemon, "pokemon_id", pokemon_id)
\* "SELECT region_name FROM region WHERE region_id = $1"
SelectRegionName(region_id) ==
    Project(SelectSeq2(region, "region_id", region_id), "region_name")
\* the WHERE clause left out
SelectTrainerByIdUnfiltered(id) == trainer
\* "SELECT * FROM trainer WHERE trainer_id = $1"
SelectTrainerById(id) == SelectSeq2(trainer, "trainer_id", id)
\* "SELECT * FROM pokemonabilities WHERE pokemon_id = $1"
SelectPokemonAbilities(pokemon_id) ==
    SelectSeq2(pokemonabilities, "pokemon_id", pokemon_id)
\* "SELECT * FROM ability WHERE ability_id = $1"
SelectAbilityById(ability_id) == SelectSeq2(ability, "ability_id", ability_id)
\* "SELECT * FROM pokemon"
SelectPokemons == pokemon
\* the flag left to the column's default
InsertTrainerNameOnly(name, gym_leader) ==
    Append(trainer, [trainer_id |-> trainer_seq, name |-> name,
                     gym_leader |-> FALSE])
\* the id computed by the handler as the row count plus one
InsertTrainerCounted(name, gym_leader) ==
    Append(trainer, [trainer_id |-> Len(trainer) + 1, name |-> name,
                     gym_leader |-> gym_leader])
\* "INSERT INTO trainer (name, gym_leader) VALUES ($1, $2)": the statement
\* names no trainer_id, the store takes it from the column's sequence
InsertTrainer(name, gym_leader) ==
    Append(trainer, [trainer_id |-> trainer_seq, name |-> name,
                     gym_leader |-> gym_leader])
\* the WHERE clause compared with the wrong operator
DeleteTrainerOthers(id) == SelectSeq2(trainer, "trainer_id", id)
\* "DELETE FROM trainer WHERE trainer_id = $1"
DeleteTrainer(id) == RejectSeq(trainer, "trainer_id", id)

\* ------------------------------------------------------- response envelope
\* Option<T>: None is <<>>, Some(x) is <<x>>; an empty HTTP body is <<>>
None == <<>>
Some(x) == <<x>>

ApiOK == [api |-> "OK", data |-> <<>>]
ApiError == [api |-> "Error", data |-> <<>>]
JsonData(data) == [api |-> "JsonData", data |-> <<data>>]
NoResp == [api |-> "none", data |-> <<>>]

into_response(r) ==
    CASE r.api = "OK" -> [status |-> StatusOK, body |-> <<>>]
      [] r.api = "Error" -> [status |-> StatusInternalServerError, body |-> <<>>]
      [] r.api = "JsonData" -> [status |-> StatusOK, body |-> r.data]

\* ----------------------------------------------------------- the records
Trainer(r, pokemon_opt) ==
    [trainer_id |-> r.trainer_id, name |-> r.name, gym_leader |-> r.gym_leader,
     pokemon |-> pokemon_opt]
Pokemon(row, region_row) ==
    [pokemon_id |-> row.pokemon_id, name |-> row.name,
     region |-> region_row.region_name]
Ability(row) ==
    [ability_id |-> row.ability_id, name |-> row.name, damage |-> row.damage,
     status_effect |-> row.status_effect]
PokemonFull(p, abilities) ==
    [pokemon_id |-> p.pokemon_id, name |-> p.name, region |-> p.region,
     abilities |-> abilities]

\* ------------------------------------------------------------- the tasks
NoPayload == [name |-> "", gym_leader |-> FALSE]
Idle ==
    [pc |-> "idle", handler |-> "none", id |-> 0, payload |-> NoPayload,
     rows |-> <<>>, i |-> 0, out |-> <<>>,
     p_rows |-> <<>>, j |-> 0, acc |-> <<>>,
     p |-> <<>>, k |-> 0, cur |-> <<>>,
     resp |-> NoResp, ae |-> 0, qe |-> 0, dberr |-> FALSE]

\* the handler's locals are dropped when it returns and when it unwinds
Dropped(s) ==
    [s EXCEPT !.rows = <<>>, !.i = 0, !.out = <<>>, !.p_rows = <<>>, !.j = 0,
              !.acc = <<>>, !.p = <<>>, !.k = 0, !.cur = <<>>]
\* the handler returns: its ApiResponse goes to the client
Return(s, r) == [Dropped(s) EXCEPT !.pc = "done", !.resp = r]
\* unwrap() on an Err or on None: the handler's task panics, nothing is sent
Unwind(s) == [Dropped(s) EXCEPT !.pc = "panicked"]
\* the store fails the awaited statement
Failed(s) == [s EXCEPT !.dberr = TRUE]
\* history: ae is the epoch (the number of writes executed, plus one) at which
\* the request was accepted, qe the epoch of the task's first statement
Stamp(s) == IF s.qe = 0 THEN [s EXCEPT !.qe = Len(hist)] ELSE s

Finished(t) == task[t].pc \in {"done", "panicked"}

\* ------------------------------------------------- GET /trainer (fan-out)
\* head of `for r in rows`: the next ownership query, or the response
get_trainers_rows(s) ==
    IF s.i <= Len(s.rows)
    THEN [s EXCEPT !.pc = "trainerspokemon"]
    ELSE Return(s, JsonData([trainers |-> s.out]))

\* the trainer is pushed only if the table still holds its row
get_trainers_push_present(s) ==
    IF s.rows[s.i].trainer_id \in {trainer[n].trainer_id : n \in 1..Len(trainer)}
    THEN get_trainers_rows([s EXCEPT !.out = Append(@, Trainer(s.rows[s.i], Some(s.acc))),
                                     !.i = @ + 1])
    ELSE get_trainers_rows([s EXCEPT !.i = @ + 1])

\* `trainers.push(trainer)` with `pokemon: Some(pokemon_list)`, then the next r
get_trainers_push(s) ==
    get_trainers_rows([s EXCEPT !.out = Append(@, Trainer(s.rows[s.i], Some(s.acc))),
                                !.i = @ + 1])

\* head of `for p_row in pokemon_res`
get_trainers_p_rows(s) ==
    IF s.j <= Len(s.p_rows)
    THEN [s EXCEPT !.pc = "pokemon"]
    ELSE get_trainers_push(s)

\* head of `for pokemon in p`
get_trainers_p(s) ==
    IF s.k <= Len(s.p)
    THEN [s EXCEPT !.pc = "region"]
    ELSE get_trainers_p_rows([s EXCEPT !.j = @ + 1])

\* db.query("SELECT * FROM trainer") and its match
get_trainers_select(t) ==
    /\ task[t].handler = "get_trainers" /\ task[t].pc = "trainer"
    /\ \/ task' = [task EXCEPT ![t] =
                get_trainers_rows([Stamp(@) EXCEPT !.rows = SelectTrainers,
                                                   !.i = 1, !.out = <<>>])]
       \/ task' = [task EXCEPT ![t] = Return(Failed(Stamp(@)), ApiError)]
    /\ UNCHANGED <<tables, trainer_seq, hist, started>>

\* the ownership query of trainer rows[i], unwrapped
get_trainers_owned(t) ==
    /\ task[t].handler = "get_trainers" /\ task[t].pc = "trainerspokemon"
    /\ \/ LET s == task[t]
              trainer_id == s.rows[s.i].trainer_id
          IN  task' = [task EXCEPT ![t] =
                get_trainers_p_rows(
                    [s EXCEPT !.p_rows = SelectOwned(trainer_id),
                              !.j = 1, !.acc = <<>>])]
       \/ task' = [task EXCEPT ![t] = Unwind(Failed(@))]
    /\ UNCHANGED <<tables, trainer_seq, hist, started>>

\* the creature query of ownership row p_rows[j], unwrapped
get_trainers_pokemon(t) ==
    /\ task[t].handler = "get_trainers" /\ task[t].pc = "pokemon"
    /\ \/ LET s == task[t]
              pokemon_id == s.p_rows[s.j].pokemon_id
          IN  task' = [task EXCEPT ![t] =
                get_trainers_p([s EXCEPT !.p = SelectPokemonById(pokemon_id),
                                         !.k = 1])]
       \/ task' = [task EXCEPT ![t] = Unwind(Failed(@))]
    /\ UNCHANGED <<tables, trainer_seq, hist, started>>

\* the region query of creature p[k], unwrapped; then first().unwrap()
get_trainers_region(t) ==
    /\ task[t].handler = "get_trainers" /\ task[t].pc = "region"
    /\ \/ LET s == task[t]
              region_res == SelectRegionName(s.p[s.k].region_id)
          IN  task' = [task EXCEPT ![t] =
                IF region_res = <<>>
                THEN Unwind(s)
                ELSE get_trainers_p(
                        [s EXCEPT !.acc = Append(@, Pokemon(s.p[s.k], region_res[1])),
                                  !.k = @ + 1])]
       \/ task' = [task EXCEPT ![t] = Unwind(Failed(@))]
    /\ UNCHANGED <<tables, trainer_seq, hist, started>>

\* ------------------------------------------------------ GET /trainer/{id}
\* the statement written as DELETE ... RETURNING *
get_trainer_returning(t) ==
    /\ task[t].handler = "get_trainer" /\ task[t].pc = "trainer"
    /\ LET rows == SelectTrainerById(task[t].id)
           trainers == [n \in 1..Len(rows) |-> Trainer(rows[n], None)]
       IN  /\ task' = [task EXCEPT ![t] =
                    Return(Stamp(@), JsonData([trainers |-> trainers]))]
           /\ trainer' = RejectSeq(trainer, "trainer_id", task[t].id)
    /\ UNCHANGED <<readonly, trainer_seq, hist, started>>

get_trainer(t) ==
    /\ task[t].handler = "get_trainer" /\ task[t].pc = "trainer"
    /\ \/ LET rows == SelectTrainerById(task[t].id)
              trainers == [n \in 1..Len(rows) |-> Trainer(rows[n], None)]
          IN  task' = [task EXCEPT ![t] =
                Return(Stamp(@), JsonData([trainers |-> trainers]))]
       \/ task' = [task EXCEPT ![t] = Return(Failed(Stamp(@)), ApiError)]
    /\ UNCHANGED <<tables, trainer_seq, hist, started>>

\* ---------------------------------------------------------- POST /trainer
create_trainer(t) ==
    /\ task[t].handler = "create_trainer" /\ task[t].pc = "trainer"
    /\ \/ /\ trainer' = InsertTrainer(task[t].payload.name, task[t].payload.gym_leader)
          /\ trainer_seq' = trainer_seq + 1
          /\ hist' = Append(hist, trainer')
          /\ task' = [task EXCEPT ![t] = Return([@ EXCEPT !.qe = Len(hist')], ApiOK)]
       \/ /\ trainer_seq' \in {trainer_seq, trainer_seq + 1}
          /\ task' = [task EXCEPT ![t] = Return(Failed(Stamp(@)), ApiError)]
          /\ UNCHANGED <<trainer, hist>>
    /\ UNCHANGED <<readonly, started>>

\* ---------------------------------------------------- DELETE /trainer/{id}
delete_trainer(t) ==
    /\ task[t].handler = "delete_trainer" /\ task[t].pc = "trainer"
    /\ \/ /\ trainer' = DeleteTrainer(task[t].id)
          /\ hist' = Append(hist, trainer')
          /\ task' = [task EXCEPT ![t] = Return([@ EXCEPT !.qe = Len(hist')], ApiOK)]
       \/ /\ task' = [task EXCEPT ![t] = Return(Failed(Stamp(@)), ApiError)]
          /\ UNCHANGED <<trainer, hist>>
    /\ UNCHANGED <<readonly, trainer_seq, started>>

\* ------------------------------------------- GET /pokemon-abilities/{id}
\* an empty result reported as a failure
get_ability_rows_found(s) ==
    IF s.i <= Len(s.rows)
    THEN [s EXCEPT !.pc = "ability"]
    ELSE IF s.out = <<>> THEN Return(s, ApiError)
         ELSE Return(s, JsonData([ability |-> s.out]))

\* head of `for r in rows`
get_ability_rows(s) ==
    IF s.i <= Len(s.rows)
    THEN [s EXCEPT !.pc = "ability"]
    ELSE Return(s, JsonData([ability |-> s.out]))

\* db.query("SELECT * FROM pokemonabilities WHERE pokemon_id = $1") and its match
get_ability_select(t) ==
    /\ task[t].handler = "get_ability" /\ task[t].pc = "pokemonabilities"
    /\ \/ LET rows == SelectPokemonAbilities(task[t].id)
          IN  task' = [task EXCEPT ![t] =
                get_ability_rows([Stamp(@) EXCEPT !.rows = rows, !.i = 1,
                                                  !.out = <<>>])]
       \/ task' = [task EXCEPT ![t] = Return(Failed(Stamp(@)), ApiError)]
    /\ UNCHANGED <<tables, trainer_seq, hist, started>>

\* the ability query of join row rows[i], unwrapped; `for ability in ability_res`
get_ability_ability(t) ==
    /\ task[t].handler = "get_ability" /\ task[t].pc = "ability"
    /\ \/ LET s == task[t]
              ability_res == SelectAbilityById(s.rows[s.i].ability_id)
              pushed == [n \in 1..Len(ability_res) |-> Ability(ability_res[n])]
          IN  task' = [task EXCEPT ![t] =
                get_ability_rows([s EXCEPT !.out = @ \o pushed, !.i = @ + 1])]
       \/ task' = [task EXCEPT ![t] = Unwind(Failed(@))]
    /\ UNCHANGED <<tables, trainer_seq, hist, started>>

\* ------------------------------------------------- GET /pokemon (fan-out)
\* head of `for r in rows`
get_pokemon_rows(s) ==
    IF s.i <= Len(s.rows)
    THEN [s EXCEPT !.pc = "region"]
    ELSE Return(s, JsonData([pokemons |-> s.out]))

\* `pokemon_rows.push(pokemon)` with the abilities gathered, then the next r
get_pokemon_push(s) ==
    get_pokemon_rows([s EXCEPT !.out = Append(@, PokemonFull(s.cur[1], s.acc)),
                               !.i = @ + 1])

\* head of `for ability_row in ability_res`
get_pokemon_p_rows(s) ==
    IF s.j <= Len(s.p_rows)
    THEN [s EXCEPT !.pc = "ability"]
    ELSE get_pokemon_push(s)

\* db.query("SELECT * FROM pokemon") and its match
get_pokemon_select(t) ==
    /\ task[t].handler = "get_pokemon" /\ task[t].pc = "pokemon"
    /\ \/ task' = [task EXCEPT ![t] =
                get_pokemon_rows([Stamp(@) EXCEPT !.rows = SelectPokemons,
                                                  !.i = 1, !.out = <<>>])]
       \/ task' = [task EXCEPT ![t] = Return(Failed(Stamp(@)), ApiError)]
    /\ UNCHANGED <<tables, trainer_seq, hist, started>>

\* the region query of creature rows[i], unwrapped; then first().unwrap()
get_pokemon_region(t) ==
    /\ task[t].handler = "get_pokemon" /\ task[t].pc = "region"
    /\ \/ LET s == task[t]
              r == s.rows[s.i]
              region_res == SelectRegionName(r.region_id)
          IN  task' = [task EXCEPT ![t] =
                IF region_res = <<>>
                THEN Unwind(s)
                ELSE [s EXCEPT !.cur = <<Pokemon(r, region_res[1])>>,
                               !.pc = "pokemonabilities"]]
       \/ task' = [task EXCEPT ![t] = Unwind(Failed(@))]
    /\ UNCHANGED <<tables, trainer_seq, hist, started>>

\* the join query of the creature built, unwrapped
get_pokemon_join(t) ==
    /\ task[t].handler = "get_pokemon" /\ task[t].pc = "pokemonabilities"
    /\ \/ LET s == task[t]
              ability_res == SelectPokemonAbilities(s.cur[1].pokemon_id)
          IN  task' = [task EXCEPT ![t] =
                get_pokemon_p_rows([s EXCEPT !.p_rows = ability_res, !.j = 1,
                                             !.acc = <<>>])]
       \/ task' = [task EXCEPT ![t] = Unwind(Failed(@))]
    /\ UNCHANGED <<tables, trainer_seq, hist, started>>

\* the ability query of join row p_rows[j], unwrapped; `for ability in ability_res`
get_pokemon_ability(t) ==
    /\ task[t].handler = "get_pokemon" /\ task[t].pc = "ability"
    /\ \/ LET s == task[t]
              ability_res == SelectAbilityById(s.p_rows[s.j].ability_id)
              pushed == [n \in 1..Len(ability_res) |-> Ability(ability_res[n])]
          IN  task' = [task EXCEPT ![t] =
                get_pokemon_p_rows([s EXCEPT !.acc = @ \o pushed, !.j = @ + 1])]
       \/ task' = [task EXCEPT ![t] = Unwind(Failed(@))]
    /\ UNCHANGED <<tables, trainer_seq, hist, started>>

\* ------------------------------------------------------ the route table
Payloads == {[name |-> "Ash", gym_leader |-> FALSE],
             [name |-> "Misty", gym_leader |-> TRUE]}

Accept(t, handler, first, id, payload) ==
    task' = [task EXCEPT ![t] = [Idle EXCEPT !.handler = handler, !.pc = first,
                                             !.id = id, !.payload = payload,
                                             !.ae = Len(hist)]]

\* tasks are numbered in the order in which their requests are accepted
NextTask(t) == task[t].pc = "idle" /\ \A u \in DOMAIN task : u < t => task[u].pc # "idle"

\* a request arrives and is routed to its handler; the handler has not yet
\* awaited anything
Route(t) ==
    /\ NextTask(t)
    /\ \/ /\ Accept(t, "get_trainers", "trainer", 0, NoPayload)
          /\ UNCHANGED started
       \/ /\ \E id \in PathIds : Accept(t, "get_trainer", "trainer", id, NoPayload)
          /\ UNCHANGED started
       \/ /\ \E id \in PathIds : Accept(t, "delete_trainer", "trainer", id, NoPayload)
          /\ started' = started + 1
       \/ /\ \E payload \in Payloads : Accept(t, "create_trainer", "trainer", 0, payload)
          /\ started' = started + 1
       \/ /\ Accept(t, "get_pokemon", "pokemon", 0, NoPayload)
          /\ UNCHANGED started
       \/ /\ \E id \in PathIds : Accept(t, "get_ability", "pokemonabilities", id, NoPayload)
          /\ UNCHANGED started
    /\ UNCHANGED <<tables, trainer_seq, hist>>

\* ------------------------------------------------------------ the stores
Kanto == [region_id |-> 1, region_name |-> "Kanto"]
Johto == [region_id |-> 2, region_name |-> "Johto"]
Pikachu == [pokemon_id |-> 1, name |-> "Pikachu", region_id |-> 1]
Chikorita == [pokemon_id |-> 2, name |-> "Chikorita", region_id |-> 2]
Thunder == [ability_id |-> 1, name |-> "Thunder", damage |-> 110,
            status_effect |-> "paralysis"]
Growl == [ability_id |-> 2, name |-> "Growl", damage |-> 0,
          status_effect |-> "none"]
\* trainers left from earlier traffic
Gary == [trainer_id |-> 1, name |-> "Gary", gym_leader |-> FALSE]
Brock == [trainer_id |-> 2, name |-> "Brock", gym_leader |-> TRUE]
Owns(tid, pid) == [trainer_id |-> tid, pokemon_id |-> pid]
Has(pid, aid) == [pokemon_id |-> pid, ability_id |-> aid]

\* join tables whose every row refers to an existing creature or ability
OwnsSound == <<Owns(1, 1), Owns(2, 2), Owns(1, 2), Owns(1, 1), Owns(3, 1)>>
HasSound == <<Has(1, 1), Has(1, 2), Has(1, 1)>>
\* the same with one row each that refers to no row (creature 3, ability 3)
OwnsDangling == <<Owns(1, 1), Owns(2, 2), Owns(1, 3), Owns(1, 2), Owns(1, 1), Owns(3, 1)>>
HasDangling == <<Has(1, 1), Has(1, 3), Has(1, 2), Has(1, 1)>>

\* the stores a run starts from: no trainer yet; trainer 1 created and deleted
\* again; two trainers and join rows that refer to no row; the same with
\* region 2 without its row
Stores ==
    {[trainer |-> <<>>, region |-> <<Johto, Kanto>>, sound |-> TRUE],
     [trainer |-> <<Brock>>, region |-> <<Kanto, Johto>>, sound |-> TRUE],
     [trainer |-> <<Brock, Gary>>, region |-> <<Kanto, Johto>>, sound |-> FALSE],
     [trainer |-> <<Brock, Gary>>, region |-> <<Kanto>>, sound |-> FALSE]}

InitStore(stores) ==
    \E store \in stores :
        /\ trainer = store.trainer
        /\ trainer_seq = IF trainer = <<>> THEN Gary.trainer_id
                         ELSE Brock.trainer_id + 1
        /\ region = store.region
        /\ pokemon = <<Pikachu, Chikorita>>
        /\ ability = <<Growl, Thunder>>
        /\ trainerspokemon = IF store.sound THEN OwnsSound ELSE OwnsDangling
        /\ pokemonabilities = IF store.sound THEN HasSound ELSE HasDangling
        /\ hist = <<trainer>>
        /\ started = 0

Init ==
    /\ InitStore(Stores)
    /\ task = [t \in Tasks |-> Idle]

Next ==
    \E t \in DOMAIN task :
        \/ Route(t)
        \/ get_trainers_select(t)
        \/ get_trainers_owned(t)
        \/ get_trainers_pokemon(t)
        \/ get_trainers_region(t)
        \/ get_trainer(t)
        \/ create_trainer(t)
        \/ delete_trainer(t)
        \/ get_ability_select(t)
        \/ get_ability_ability(t)
        \/ get_pokemon_select(t)
        \/ get_pokemon_region(t)
        \/ get_pokemon_join(t)
        \/ get_pokemon_ability(t)

Spec == Init /\ [][Next]_vars

\* ------------------------------- NPosts clients posting, one client reading
RoutePosts(t) ==
    /\ NextTask(t)
    /\ \/ /\ Accept(t, "get_trainers", "trainer", 0, NoPayload)
          /\ UNCHANGED started
       \/ /\ started < NPosts
          /\ \E payload \in Payloads : Accept(t, "create_trainer", "trainer", 0, payload)
          /\ started' = started + 1
    /\ UNCHANGED <<tables, trainer_seq, hist>>

\* in the stores whose every reference is sound
InitPosts ==
    /\ InitStore({store \in Stores : store.sound})
    /\ task = [t \in 1..(NPosts + 1) |-> Idle]

NextPosts ==
    \E t \in DOMAIN task :
        \/ RoutePosts(t)
        \/ create_trainer(t)
        \/ get_trainers_select(t)
        \/ get_trainers_owned(t)
        \/ get_trainers_pokemon(t)
        \/ get_trainers_region(t)

SpecPosts == InitPosts /\ [][NextPosts]_vars

\* ================================================================ claims
\* what the client of task t holds
Returned(t, handler) == task[t].handler = handler /\ task[t].pc = "done"
Ended(t, handler) == task[t].handler = handler /\ Finished(t)
IsData(t) == task[t].resp.api = "JsonData"
Body(t) == task[t].resp.data[1]
\* the trainer table as the task's first statement found it
Seen(t) == hist[task[t].qe]
\* a response entry without its pokemon field
Row(e) == [trainer_id |-> e.trainer_id, name |-> e.name, gym_leader |-> e.gym_leader]
Ids(tbl) == {tbl[n].trainer_id : n \in 1..Len(tbl)}
\* every creature a trainer of tbl owns has its region row
RegionsPresent(tbl) ==
    \A n \in 1..Len(tbl) : \A o \in Range(trainerspokemon) : \A c \in Range(pokemon) :
        (o.trainer_id = tbl[n].trainer_id /\ c.pokemon_id = o.pokemon_id)
            => \E g \in Range(region) : g.region_id = c.region_id

\* GET /trainer/{id}, its query answered: Data, exactly the rows of that id,
\* at most one, pokemon null
C1_ById(t) ==
    (Returned(t, "get_trainer") /\ ~task[t].dberr) =>
        /\ IsData(t)
        /\ Len(Body(t).trainers) <= 1
        /\ \A n \in 1..Len(Body(t).trainers) :
              /\ Body(t).trainers[n].pokemon = None
              /\ Body(t).trainers[n].trainer_id = task[t].id
              /\ Row(Body(t).trainers[n]) \in Range(Seen(t))
        /\ \A r \in Range(Seen(t)) :
              r.trainer_id = task[t].id =>
                  \E n \in 1..Len(Body(t).trainers) : Row(Body(t).trainers[n]) = r

\* a Data response of GET /trainer: one entry per trainer row, pokemon a list
C1_AllEntries(t) ==
    /\ IsData(t)
    /\ Len(Body(t).trainers) = Len(Seen(t))
    /\ \A n \in 1..Len(Seen(t)) :
          /\ Row(Body(t).trainers[n]) = Seen(t)[n]
          /\ Body(t).trainers[n].pokemon # None
          /\ Len(Body(t).trainers[n].pokemon) = 1

\* C1 as stated: for every store state and every id, GET /trainer/{id} returns
\* Data with exactly the rows of that id, pokemon null, and GET /trainer
\* returns one entry for every trainer row, pokemon populated.
C1_EveryStore ==
    \A t \in DOMAIN task :
        /\ C1_ById(t)
        /\ (Ended(t, "get_trainers") /\ ~task[t].dberr) =>
                (task[t].pc = "done" /\ C1_AllEntries(t))

\* C1 amended: for every store state and every id, GET /trainer/{id} returns
\* Data with exactly the rows of that id (zero or one), pokemon null; for every
\* store state in which every creature owned by a trainer row has its region
\* row, GET /trainer returns one entry for every trainer row, pokemon a list
\* and never null; in the other store states GET /trainer returns nothing.
\* (The store answers the statements.)
C1_RegionsPresent ==
    \A t \in DOMAIN task :
        /\ C1_ById(t)
        /\ (Ended(t, "get_trainers") /\ ~task[t].dberr) =>
                IF RegionsPresent(Seen(t))
                THEN task[t].pc = "done" /\ C1_AllEntries(t)
                ELSE task[t].pc = "panicked"

\* both lookups answered with entries: one trainer by id, two trainers listed
C1_Witness ==
    \E t, u \in DOMAIN task :
        /\ Returned(t, "get_trainer") /\ IsData(t) /\ Len(Body(t).trainers) = 1
        /\ Returned(u, "get_trainers") /\ IsData(u) /\ Len(Body(u).trainers) = 2

\* ------------------------------------------------------------------- C2
\* entries of response b that response a does not hold
NewEntries(a, b) == {n \in 1..Len(b) : \A m \in 1..Len(a) : b[n] # a[m]}

\* C2: round trip.  A GET /trainer whose query ran right before the insert of
\* a POST /trainer that returned OK, and a GET /trainer whose query ran right
\* after it with no write in between: the later response has exactly one
\* entry more, that entry carries the posted name and flag and a trainer_id
\* no earlier entry has, and every earlier entry is in it unchanged.
C2_RoundTrip ==
    \A p \in DOMAIN task :
        (Returned(p, "create_trainer") /\ task[p].resp = ApiOK) =>
        \A g0 \in DOMAIN task :
            (Returned(g0, "get_trainers") /\ IsData(g0)
                    /\ task[g0].qe = task[p].qe - 1) =>
            \A g \in DOMAIN task :
                (Returned(g, "get_trainers") /\ IsData(g)
                        /\ task[g].qe = task[p].qe) =>
                LET before == Body(g0).trainers
                    after == Body(g).trainers
                IN  /\ Len(after) = Len(before) + 1
                    /\ Cardinality(NewEntries(before, after)) = 1
                    /\ \A n \in NewEntries(before, after) :
                          /\ after[n].name = task[p].payload.name
                          /\ after[n].gym_leader = task[p].payload.gym_leader
                          /\ \A m \in 1..Len(before) :
                                after[n].trainer_id # before[m].trainer_id
                    /\ \A m \in 1..Len(before) :
                          \E n \in 1..Len(after) : after[n] = before[m]

\* a gym leader was posted between two listings of a non-empty roster
C2_Witness ==
    \E p, g0, g \in DOMAIN task :
        /\ Returned(p, "create_trainer") /\ task[p].resp = ApiOK
        /\ task[p].payload.gym_leader
        /\ Returned(g0, "get_trainers") /\ IsData(g0) /\ task[g0].qe = task[p].qe - 1
        /\ Returned(g, "get_trainers") /\ IsData(g) /\ task[g].qe = task[p].qe
        /\ Len(Body(g0).trainers) >= 1

\* ------------------------------------------------------------------- C4
\* the ids of the rows the insert of POST task p added with p's name and flag
Produced(p) ==
    LET before == hist[task[p].qe - 1]
        after == hist[task[p].qe]
    IN  {id \in Ids(after) :
            /\ id \notin Ids(before)
            /\ SelectSeq2(after, "trainer_id", id) =
                    <<[trainer_id |-> id, name |-> task[p].payload.name,
                       gym_leader |-> task[p].payload.gym_leader]>>}

\* C4: POST /trainer requests running concurrently, in every interleaving of
\* their inserts: each one that returned OK produced one trainer row, no two
\* of them rows of the same trainer_id, and a GET /trainer whose query ran
\* after the inserts holds all the rows.
C4_DistinctIds ==
    \A p \in DOMAIN task :
        (Returned(p, "create_trainer") /\ task[p].resp = ApiOK) =>
            /\ Cardinality(Produced(p)) = 1
            /\ \A q \in DOMAIN task \ {p} :
                  (Returned(q, "create_trainer") /\ task[q].resp = ApiOK) =>
                        Produced(p) \cap Produced(q) = {}
            /\ \A g \in DOMAIN task :
                  (Returned(g, "get_trainers") /\ IsData(g) /\ task[g].qe >= task[p].qe) =>
                        \A id \in Produced(p) :
                            \E n \in 1..Len(Body(g).trainers) :
                                /\ Body(g).trainers[n].trainer_id = id
                                /\ Body(g).trainers[n].name = task[p].payload.name
                                /\ Body(g).trainers[n].gym_leader
                                        = task[p].payload.gym_leader

\* NPosts requests were all accepted before the first of them inserted, all
\* returned OK, and a listing accepted after the last insert returned
C4_Witness ==
    \E g \in DOMAIN task :
        LET posts == {p \in DOMAIN task : Returned(p, "create_trainer")
                                            /\ task[p].resp = ApiOK}
        IN  /\ Returned(g, "get_trainers") /\ IsData(g)
            /\ Cardinality(posts) = NPosts
            /\ \A p, q \in posts : task[p].ae < task[q].qe /\ task[q].qe <= task[g].ae
            /\ Len(Body(g).trainers) >= NPosts + 1

\* ------------------------------------------------------------------- C3
\* C3: a DELETE /trainer/{id} that returned OK left the trainer table without
\* a row of that id and with every other row; a GET /trainer/{id} of an id
\* that existed, queried after the delete, returns an empty trainers list.  A
\* DELETE of an id with no trainer row changes nothing and, like every DELETE
\* the store executes, returns OK: HTTP 200 with an empty body.
C3_Delete ==
    \A d \in DOMAIN task :
        Returned(d, "delete_trainer") =>
            /\ ~task[d].dberr =>
                    into_response(task[d].resp) = [status |-> StatusOK, body |-> <<>>]
            /\ task[d].resp = ApiOK =>
                LET before == hist[task[d].qe - 1]
                    after == hist[task[d].qe]
                IN  /\ task[d].id \notin Ids(after)
                    /\ \A r \in Range(before) :
                            r.trainer_id # task[d].id => r \in Range(after)
                    /\ Len(after) = Len(before) -
                            Cardinality({n \in 1..Len(before) :
                                            before[n].trainer_id = task[d].id})
                    /\ task[d].id \notin Ids(before) => after = before
                    /\ \A g \in DOMAIN task :
                          ( /\ task[d].id \in Ids(before)
                            /\ Returned(g, "get_trainer") /\ IsData(g)
                            /\ task[g].id = task[d].id
                            /\ task[g].qe >= task[d].qe )
                          => Body(g).trainers = <<>>

\* a trainer of a roster of two was deleted and then looked up
C3_Witness ==
    \E d, g \in DOMAIN task :
        /\ Returned(d, "delete_trainer") /\ task[d].resp = ApiOK
        /\ task[d].id \in Ids(hist[task[d].qe - 1])
        /\ Len(hist[task[d].qe]) = 1
        /\ Returned(g, "get_trainer") /\ IsData(g) /\ task[g].id = task[d].id
        /\ task[g].ae >= task[d].qe

\* ------------------------------------------------------------------- C5
FanOut == {"get_trainers", "get_pokemon", "get_ability"}
HasCreature(pokemon_id) == \E c \in Range(pokemon) : c.pokemon_id = pokemon_id
HasRegion(region_id) == \E g \in Range(region) : g.region_id = region_id
HasAbility(ability_id) == \E a \in Range(ability) : a.ability_id = ability_id

\* the rows the assembly of task t refers to are all there
Resolved(t) ==
    CASE task[t].handler = "get_trainers" ->
            \A r \in Range(Seen(t)) : \A o \in Range(trainerspokemon) :
                o.trainer_id = r.trainer_id =>
                    /\ HasCreature(o.pokemon_id)
                    /\ \A c \in Range(pokemon) :
                            c.pokemon_id = o.pokemon_id => HasRegion(c.region_id)
      [] task[t].handler = "get_pokemon" ->
            \A c \in Range(pokemon) :
                /\ HasRegion(c.region_id)
                /\ \A h \in Range(pokemonabilities) :
                        h.pokemon_id = c.pokemon_id => HasAbility(h.ability_id)
      [] task[t].handler = "get_ability" ->
            \A h \in Range(pokemonabilities) :
                h.pokemon_id = task[t].id => HasAbility(h.ability_id)

\* C5: in every fan-out assembly, when a related row that a join or foreign
\* key refers to is absent (region of a creature, creature of an ownership
\* row, ability of a creature-ability row), the whole request fails: no Data
\* response is produced.
C5_MissingRowFails ==
    \A t \in DOMAIN task :
        (task[t].handler \in FanOut /\ Returned(t, task[t].handler) /\ IsData(t))
            => Resolved(t)

\* ------------------------------------------------------------------- C6
\* C6: in GET /trainer, GET /pokemon and GET /pokemon-abilities/{id}, a query
\* the store fails, the first or a nested one, reaches the client as the
\* Error response: HTTP 500 with an empty body.
C6_QueryErrorIs500 ==
    \A t \in DOMAIN task :
        (task[t].handler \in FanOut /\ Finished(t) /\ task[t].dberr) =>
            /\ task[t].pc = "done"
            /\ into_response(task[t].resp) =
                    [status |-> StatusInternalServerError, body |-> <<>>]

\* ------------------------------------------------------------------- C8
NoJoinRows(id) == \A h \in Range(pokemonabilities) : h.pokemon_id # id

\* C8: GET /pokemon-abilities/{id} for an id with no row in pokemonabilities,
\* a creature without abilities or no creature at all, returns HTTP 200 with
\* the body {"ability": []}, not an Error.  (The store answers the query.)
C8_EmptyAbilityList ==
    \A t \in DOMAIN task :
        (Ended(t, "get_ability") /\ ~task[t].dberr /\ NoJoinRows(task[t].id)) =>
            /\ task[t].pc = "done"
            /\ into_response(task[t].resp) =
                    [status |-> StatusOK, body |-> <<[ability |-> <<>>]>>]

\* asked for a creature without abilities and for an id of no creature
C8_Witness ==
    \E t, u \in DOMAIN task :
        /\ Returned(t, "get_ability") /\ IsData(t) /\ NoJoinRows(task[t].id)
        /\ HasCreature(task[t].id)
        /\ Returned(u, "get_ability") /\ IsData(u) /\ NoJoinRows(task[u].id)
        /\ ~HasCreature(task[u].id)

\* ------------------------------------------------------------------- C9
\* the creature ids of the ownership rows of a trainer, in the store's order,
\* each as often as it is owned, without the ids that have no creature row
OwnedIds(trainer_id) ==
    LET owned == SelectSeq(trainerspokemon, LAMBDA o : o.trainer_id = trainer_id)
        found == SelectSeq(owned, LAMBDA o : HasCreature(o.pokemon_id))
    IN  [n \in 1..Len(found) |-> found[n].pokemon_id]

\* C9: in a GET /trainer response each trainer's pokemon list holds the
\* creatures in the order in which the store returned the trainer's ownership
\* rows, without de-duplication: a creature owned in k rows is there k times.
C9_OwnershipOrder ==
    \A g \in DOMAIN task :
        (Returned(g, "get_trainers") /\ IsData(g)) =>
            \A n \in 1..Len(Body(g).trainers) :
                LET list == Body(g).trainers[n].pokemon[1]
                    ids == OwnedIds(Body(g).trainers[n].trainer_id)
                IN  /\ Len(list) = Len(ids)
                    /\ \A m \in 1..Len(list) :
                          /\ list[m].pokemon_id = ids[m]
                          /\ \E c \in Range(pokemon) : \E r \in Range(region) :
                                /\ r.region_id = c.region_id
                                /\ list[m] = [pokemon_id |-> c.pokemon_id,
                                              name |-> c.name,
                                              region |-> r.region_name]

\* a trainer's list holds one creature twice with another one in between
C9_Witness ==
    \E g \in DOMAIN task :
        /\ Returned(g, "get_trainers") /\ IsData(g)
        /\ \E n \in 1..Len(Body(g).trainers) :
              LET list == Body(g).trainers[n].pokemon[1]
              IN  /\ Len(list) = 3
                  /\ list[1] = list[3]
                  /\ list[1] # list[2]

\* ------------------------------------------------------------------ C10
\* C10: with POST /trainer and DELETE /trainer/{id} running between the
\* queries of a GET /trainer, the trainers of its response are the trainer
\* rows its first query returned, one entry per row in that order: a trainer
\* deleted after that query is returned, one inserted after it is not.
C10_FirstQueryDecides ==
    \A g \in DOMAIN task :
        /\ (task[g].handler = "get_trainers"
                /\ task[g].pc \in {"trainerspokemon", "pokemon", "region"}) =>
              /\ task[g].rows = Seen(g)
              /\ Len(task[g].out) = task[g].i - 1
              /\ \A n \in 1..Len(task[g].out) : Row(task[g].out[n]) = Seen(g)[n]
        /\ (Returned(g, "get_trainers") /\ IsData(g)) =>
              /\ Len(Body(g).trainers) = Len(Seen(g))
              /\ \A n \in 1..Len(Seen(g)) : Row(Body(g).trainers[n]) = Seen(g)[n]
              /\ \A r \in Range(trainer) :
                    r \notin Range(Seen(g)) =>
                        \A n \in 1..Len(Body(g).trainers) :
                            Body(g).trainers[n].trainer_id # r.trainer_id

\* a listing returned a trainer deleted between its queries
C10_Witness ==
    \E g, d \in DOMAIN task :
        /\ Returned(g, "get_trainers") /\ IsData(g)
        /\ Returned(d, "delete_trainer") /\ task[d].resp = ApiOK
        /\ task[g].qe < task[d].qe
        /\ \E n \in 1..Len(Body(g).trainers) :
              /\ Body(g).trainers[n].trainer_id = task[d].id
              /\ task[d].id \notin Ids(trainer)

\* ------------------------------------------------------------------- C7
Gets == {"get_trainers", "get_trainer", "get_pokemon", "get_ability"}

C7_SameResponse ==
    \A t, u \in DOMAIN task :
        ( /\ task[t].handler \in Gets /\ Finished(t) /\ ~task[t].dberr
          /\ task[u].handler = task[t].handler /\ task[u].id = task[t].id
          /\ Finished(u) /\ ~task[u].dberr
          /\ task[u].qe = task[t].qe )
        => (task[u].pc = task[t].pc /\ task[u].resp = task[t].resp)

C7_ReadOnly ==
    \A t \in DOMAIN task :
        (task[t].handler \in Gets /\ task'[t] # task[t]) =>
            UNCHANGED <<tables, trainer_seq>>

\* C7: a GET repeated with no write to the trainer table since the first
\* one's query yields the same response (status, elements, order, fields), or
\* in both cases none; and no step of a GET handler changes a table.  (The
\* store answers the queries.)
C7_Idempotent == [](C7_SameResponse) /\ [][C7_ReadOnly]_vars

\* the listing of two trainers was asked twice with no write between the two
\* requests' queries, and both were answered
C7_Witness ==
    \E t, u \in DOMAIN task :
        /\ t # u
        /\ Returned(t, "get_trainers") /\ Returned(u, "get_trainers")
        /\ IsData(t) /\ task[u].resp = task[t].resp
        /\ Len(Body(t).trainers) = 2
        /\ task[u].qe = task[t].qe

====
